---- MODULE Spec2Model ----
(***************************************************************************)
(* Model of sem4-GP/3_LargeScaleGP.ipynb: the RFF feature mapper and the   *)
(* SparseGPModel (Nystrom) wrapper, together with numpy's process-wide     *)
(* random generator that both draw from.                                   *)
(*                                                                         *)
(* Arrays are records [shape, data]; an optional attribute is a sequence   *)
(* of length 0 (absent) or 1 (present).  Phases are counted in quarter     *)
(* turns (pi/2), so that the cosine of every phase is an integer.          *)
(***************************************************************************)
EXTENDS Integers, Sequences, FiniteSets, TLC

\* ------------------------------------------------------------------ bounds
\* Number of states of the abstract generator behind np.random.
RngMod == 3
\* np.random.seed is called with a value in 0..MaxSeed.
MaxSeed == 0

\* ------------------------------------------------------------ numpy helpers
\* x = np.random.rand(100, dim) style inputs: small 2-D arrays, one column.
Arr2(rows) == [shape |-> <<Len(rows), 1>>, data |-> rows]
\* A 1-D array (a caller's mistake): shape has one entry only.
Arr1(vals) == [shape |-> <<Len(vals)>>, data |-> [k \in 1..Len(vals) |-> <<vals[k]>>]]

RffInputs == {Arr2(<<(<<0>>), (<<1>>)>>), Arr2(<<(<<1>>), (<<2>>), (<<3>>)>>)}
BadInputs == {Arr1(<<0, 1>>)}

\* np.random.seed(s)
RngSeed(s) == s % RngMod
\* every sample drawn advances the generator by one state
RngAdvance(st, n) == (st + n) % RngMod

RECURSIVE SumTo(_, _)
SumTo(f, n) == IF n = 0 THEN 0 ELSE f[n] + SumTo(f, n - 1)

Dot(a, b) == SumTo([k \in 1..Len(a) |-> a[k] * b[k]], Len(a))

\* cos of a phase given in quarter turns
Cos4(p) == CASE p % 4 = 0 -> 1
             [] p % 4 = 1 -> 0
             [] p % 4 = 2 -> -1
             [] OTHER -> 0

\* ------------------------------------------------------------------- RFF
RffIds == {1, 2}
Kernels == {"rbf", "laplace", "poly"}
\* gamma is chosen so that sqrt(2*gamma) is an integer
Gammas == {2}
NComponents == {2}

ISqrt(n) == CHOOSE r \in 0..n : r * r = n

\* standard normal / standard Cauchy / Uniform(0, 2 pi) sample read off the
\* generator state st (the Cauchy has the heavier tail)
StdNormal(st) == (st % 3) - 1
StdCauchy(st) == ((3 * st) % 5) - 2
Uniform4(st) == st % 4

\* the value assigned to self.w for the two recognised kernels
DrawW(kernel, gamma, M, d, st) ==
    [j \in 1..M |-> [k \in 1..d |->
        LET s == RngAdvance(st, (j - 1) * d + (k - 1))
        IN IF kernel = "rbf" THEN ISqrt(2 * gamma) * StdNormal(s)
                             ELSE gamma * StdCauchy(s)]]

\* the value assigned to self.u
DrawU(M, st) == [j \in 1..M |-> Uniform4(RngAdvance(st, j - 1))]

\* Z[i][j] = cos(w_j . x_i + u_j), in units of sqrt(2 / n_components)
FeatureMap(w, u, X) ==
    [i \in 1..X.shape[1] |-> [j \in 1..Len(u) |->
        Cos4(Dot(w[j], X.data[i]) + u[j])]]

\* K = Z.dot(Z.T)
GramOf(Z) == [a \in 1..Len(Z) |-> [b \in 1..Len(Z) |-> Dot(Z[a], Z[b])]]

VARIABLES
    np_random,  \* state of numpy's process-wide generator
    seeded,     \* history: the value last given to np.random.seed
    rff,        \* the RFF instances
    rffHist,    \* history, per RFF instance: how its last fit was made
    memo,       \* history: <<>> or <<[obj, X, out, again]>>: the first output
                \* transform returned for X since obj's last fit call, and
                \* whether transform was called on X again since
    gp,         \* the SparseGPModel instance
    gpOwn,      \* history: the state a generator owned by gp would be in
    arrays,     \* the caller's training arrays, passed to fit by reference
    last        \* history: the most recent call and its outcome

vars == <<np_random, seeded, rff, rffHist, memo, gp, gpOwn, arrays, last>>

NoCall == [op |-> "none", obj |-> 0, arg |-> <<>>, err |-> "", out |-> <<>>,
           pre |-> <<>>, idx |-> <<>>, had |-> FALSE, rng0 |-> 0, own0 |-> 0]

\* RFF.__init__
RffInit(gamma, n_components, kernel) ==
    [gamma |-> gamma, kernel |-> kernel, n_components |-> n_components,
     fitted |-> FALSE, w |-> <<>>, u |-> <<>>]

NoHist == [called |-> FALSE, succeeded |-> FALSE, X |-> <<>>, seed |-> <<>>,
           wFrom |-> "none", uFrom |-> "none"]

\* RFF.fit(X): the new instance, the new generator state and the error raised
\* ("" when the call returns).  The branch on self.kernel has no else.
RFF_fit(self, X, st) ==
    IF Len(X.shape) < 2
    THEN [self |-> self, st |-> st, err |-> "IndexError", wrote |-> {}]
    ELSE
      LET d == X.shape[2]
          M == self.n_components
          known == self.kernel \in {"rbf", "laplace"}
          w1 == IF known THEN <<DrawW(self.kernel, self.gamma, M, d, st)>>
                         ELSE self.w
          st1 == IF known THEN RngAdvance(st, M * d) ELSE st
          u1 == <<DrawU(M, st1)>>
          st2 == RngAdvance(st1, M)
      IN [self |-> [self EXCEPT !.w = w1, !.u = u1, !.fitted = TRUE],
          st |-> st2, err |-> "",
          wrote |-> (IF known THEN {"w"} ELSE {}) \cup {"u", "fitted"}]

\* transform without its check of self.fitted
RFF_transform_unguarded(self, X, st) ==
    IF self.w = <<>>
    THEN [self |-> self, st |-> st, err |-> "AttributeError", out |-> <<>>]
    ELSE [self |-> self, st |-> st, err |-> "",
          out |-> <<FeatureMap(self.w[1], self.u[1], X)>>]

\* transform drawing fresh frequencies and phases on every call
RFF_transform_resampling(self, X, st) ==
    IF ~self.fitted
    THEN [self |-> self, st |-> st, err |-> "NotFittedError", out |-> <<>>]
    ELSE LET M == self.n_components
             w1 == DrawW("rbf", self.gamma, M, X.shape[2], st)
             u1 == DrawU(M, RngAdvance(st, M * X.shape[2]))
         IN [self |-> [self EXCEPT !.w = <<w1>>, !.u = <<u1>>],
             st |-> RngAdvance(st, M * X.shape[2] + M), err |-> "",
             out |-> <<FeatureMap(w1, u1, X)>>]

\* RFF.transform(X)
RFF_transform(self, X, st) ==
    IF ~self.fitted
    THEN [self |-> self, st |-> st, err |-> "NotFittedError", out |-> <<>>]
    ELSE IF self.w = <<>>
    THEN [self |-> self, st |-> st, err |-> "AttributeError", out |-> <<>>]
    ELSE [self |-> self, st |-> st, err |-> "",
          out |-> <<FeatureMap(self.w[1], self.u[1], X)>>]

\* RFF.compute_kernel(X)
RFF_compute_kernel(self, X, st) ==
    IF ~self.fitted
    THEN [self |-> self, st |-> st, err |-> "NotFittedError", out |-> <<>>]
    ELSE LET r == RFF_transform(self, X, st)
         IN IF r.err # "" THEN r
            ELSE [r EXCEPT !.out = <<GramOf(r.out[1])>>]

\* np.random.seed(s)
Seed(s) ==
    /\ np_random' = RngSeed(s)
    /\ seeded' = <<s>>
    /\ gpOwn' = RngSeed(s)
    /\ last' = [NoCall EXCEPT !.op = "seed"]
    /\ UNCHANGED <<rff, rffHist, memo, gp, arrays>>

\* x = np.random.rand(100, dim): some other consumer of the generator
Rand ==
    /\ np_random' = RngAdvance(np_random, 1)
    /\ last' = [NoCall EXCEPT !.op = "rand"]
    /\ UNCHANGED <<seeded, rff, rffHist, memo, gp, gpOwn, arrays>>

\* history: which fit call an attribute's value comes from
From(attr, wrote, before) ==
    IF attr \in wrote THEN "latest"
    ELSE IF before = "none" THEN "none" ELSE "older"

RffFit(i, X) ==
    \E r \in {RFF_fit(rff[i], X, np_random)}, h \in {rffHist[i]} :
       /\ rff' = [rff EXCEPT ![i] = r.self]
       /\ np_random' = r.st
       /\ rffHist' = [rffHist EXCEPT ![i] =
             IF r.err # "" THEN [h EXCEPT !.called = TRUE]
             ELSE [called |-> TRUE, succeeded |-> TRUE, X |-> <<X>>,
                   seed |-> seeded,
                   wFrom |-> From("w", r.wrote, h.wFrom),
                   uFrom |-> From("u", r.wrote, h.uFrom)]]
       /\ memo' = IF memo # <<>> /\ memo[1].obj = i THEN <<>> ELSE memo
       /\ last' = [NoCall EXCEPT !.op = "rff_fit", !.obj = i, !.arg = <<X>>,
                                 !.err = r.err,
                                 !.pre = IF r.err # "" THEN <<rff[i]>> ELSE <<>>]
       /\ UNCHANGED <<seeded, gp, gpOwn, arrays>>

RffTransform(i, X) ==
    \E r \in {RFF_transform(rff[i], X, np_random)} :
       /\ rff' = [rff EXCEPT ![i] = r.self]
       /\ np_random' = r.st
       /\ memo' = IF r.err # "" THEN memo
                  ELSE IF memo = <<>> \/ memo[1].obj # i \/ memo[1].X # X
                  THEN <<[obj |-> i, X |-> X, out |-> r.out[1], again |-> FALSE]>>
                  ELSE <<[memo[1] EXCEPT !.again = TRUE]>>
       /\ last' = [NoCall EXCEPT !.op = "transform", !.obj = i, !.arg = <<X>>,
                                 !.err = r.err, !.out = r.out,
                                 !.pre = <<rff[i]>>]
       /\ UNCHANGED <<seeded, rffHist, gp, gpOwn, arrays>>

RffComputeKernel(i, X) ==
    \E r \in {RFF_compute_kernel(rff[i], X, np_random)} :
       /\ rff' = [rff EXCEPT ![i] = r.self]
       /\ np_random' = r.st
       /\ last' = [NoCall EXCEPT !.op = "compute_kernel", !.obj = i,
                                 !.arg = <<X>>, !.err = r.err, !.out = r.out,
                                 !.pre = <<rff[i]>>]
       /\ UNCHANGED <<seeded, rffHist, memo, gp, gpOwn, arrays>>

\* --------------------------------------------------------- SparseGPModel
\* the training sets handed to fit: X is N x 1, y is N x 1
GpData == <<[X |-> Arr2(<<(<<0>>), (<<1>>)>>), y |-> Arr2(<<(<<1>>), (<<1>>)>>)],
            [X |-> Arr2(<<(<<1>>), (<<2>>), (<<3>>)>>),
             y |-> Arr2(<<(<<2>>), (<<0>>), (<<1>>)>>)]>>
\* values of the num_inducing argument: negative, zero, in range, above N
NumInducings == {-1, 0, 1, 2, 4}
\* position of a freshly constructed kernel's hyperparameters, counted in
\* optimiser steps
KernInit == 0
\* optimize(max_iters=100)
max_iters == 100

\* SparseGPModel.__init__: no model_ attribute yet
SGP_init(kernel, num_inducing) ==
    [kernel_ |-> kernel, num_inducing |-> num_inducing, model_ |-> <<>>]

Swap(x, a, b) == [x EXCEPT ![a] = x[b], ![b] = x[a]]

\* np.random.permutation(n): arange(n) shuffled from the back, each step
\* drawing the position to swap with; positions and values count from 0
RECURSIVE Shuffle(_, _, _)
Shuffle(x, i, st) ==
    IF i < 1 THEN x
    ELSE Shuffle(Swap(x, i + 1, (st % (i + 1)) + 1), i - 1, RngAdvance(st, 1))

\* indices drawn with replacement (np.random.randint(n, size=n))
Permutation_with_replacement(st, n) == [k \in 1..n |-> RngAdvance(st, k - 1) % n]

Permutation(st, n) == Shuffle([k \in 1..n |-> k - 1], n - 1, st)

\* Python's seq[:m]
PySlice(seq, m) ==
    LET n == Len(seq)
        stop == IF m < 0 THEN (IF n + m < 0 THEN 0 ELSE n + m)
                ELSE IF m > n THEN n ELSE m
    IN SubSeq(seq, 1, stop)

\* X[idx]: the rows of X at the (0-based) positions idx
Take(X, idx) ==
    [shape |-> <<Len(idx), X.shape[2]>>,
     data |-> [k \in 1..Len(idx) |-> X.data[idx[k] + 1]]]

Column(A) == [k \in 1..A.shape[1] |-> A.data[k][1]]

\* Where the marginal likelihood of the sparse model peaks, as a position
\* of the kernel hyperparameters: a function of the data and of Z.
LikelihoodOptimum(X, y, Z) ==
    70 * SumTo(Column(y), y.shape[1]) + SumTo(Column(Z), Z.shape[1])

\* model.optimize(max_iters=n): at most n steps from the kernel's current
\* hyperparameters h towards the optimum t
RECURSIVE Optimize(_, _, _)
Optimize(h, t, n) ==
    IF n = 0 \/ h = t THEN h
    ELSE Optimize(IF h < t THEN h + 1 ELSE h - 1, t, n - 1)

\* What the GPy library does with a call, chosen by the environment: it
\* returns, its model constructor raises, or its optimiser raises (at its
\* first iteration, before it has moved the hyperparameters).
GpyOutcomes == {"ok", "ctor", "optimize"}

\* SparseGPModel.fit(X, y)
SGP_fit(self, X, y, st, gpy) ==
    LET N == X.shape[1]
        idx == Permutation(st, N)
        st1 == RngAdvance(st, N - 1)
        sel == PySlice(idx, self.num_inducing)
        Z == Take(X, sel)
        model == [X |-> X, Y |-> y, Z |-> Z, Zfixed |-> TRUE]
        t == LikelihoodOptimum(X, y, Z)
        base == [self |-> self, st |-> st1, err |-> "", sel |-> sel,
                 X |-> X, y |-> y]
    IN IF gpy = "ctor"
       THEN [base EXCEPT !.err = "GPyError"]
       ELSE IF gpy = "optimize"
       THEN [base EXCEPT !.err = "GPyError",
                         !.self = [self EXCEPT !.model_ = <<model>>]]
       ELSE [base EXCEPT !.self = [self EXCEPT !.model_ = <<model>>,
                                       !.kernel_ = Optimize(@, t, max_iters)]]

Abs(n) == IF n < 0 THEN -n ELSE n

\* model.predict(X): the predictive mean at each row of Xn; a training target
\* counts when an inducing input lies within the kernel's reach of both
GPyPredict(model, h, Xn) ==
    LET reach == h \div 50
        near(a, b) == \E k \in 1..model.Z.shape[1] :
                         Abs(a - model.Z.data[k][1]) + Abs(b - model.Z.data[k][1]) <= reach
        N == model.X.shape[1]
    IN [i \in 1..Xn.shape[1] |->
          SumTo([n \in 1..N |-> IF near(Xn.data[i][1], model.X.data[n][1])
                                THEN model.Y.data[n][1] ELSE 0], N)]

\* SparseGPModel.predict(X)
SGP_predict(self, X) ==
    IF self.model_ = <<>>
    THEN [err |-> "AttributeError", out |-> <<>>]
    ELSE [err |-> "", out |-> <<GPyPredict(self.model_[1], self.kernel_, X)>>]

\* r2_score(y, prediction) = 1 - SSres / SStot, as the pair <<SSres, N * SStot>>
R2Score(y, p) ==
    LET N == Len(p)
        yy == Column(y)
        tot == SumTo(yy, N)
    IN <<SumTo([n \in 1..N |-> (yy[n] - p[n]) * (yy[n] - p[n])], N),
         SumTo([n \in 1..N |-> (N * yy[n] - tot) * (N * yy[n] - tot)], N)>>

\* SparseGPModel.score(X, y)
SGP_score(self, X, y) ==
    LET r == SGP_predict(self, X)
    IN IF r.err # "" THEN r ELSE [r EXCEPT !.out = <<R2Score(y, r.out[1])>>]

GpFit(d, gpy) ==
    \E r \in {SGP_fit(gp, arrays[d].X, arrays[d].y, np_random, gpy)} :
       /\ gp' = r.self
       /\ np_random' = r.st
       /\ arrays' = [arrays EXCEPT ![d] = [X |-> r.X, y |-> r.y]]
       /\ gpOwn' = RngAdvance(gpOwn, arrays[d].X.shape[1] - 1)
       /\ last' = [NoCall EXCEPT !.op = "gp_fit", !.arg = <<d>>, !.err = r.err,
                                 !.idx = <<r.sel>>, !.had = (gp.model_ # <<>>),
                                 !.rng0 = np_random, !.own0 = gpOwn,
                                 !.pre = IF r.err # "" THEN <<gp>> ELSE <<>>]
       /\ UNCHANGED <<seeded, rff, rffHist, memo>>

GpPredict(d) ==
    \E r \in {SGP_predict(gp, arrays[d].X)} :
       /\ last' = [NoCall EXCEPT !.op = "predict", !.arg = <<d>>, !.err = r.err,
                                 !.out = r.out, !.had = (gp.model_ # <<>>)]
       /\ UNCHANGED <<np_random, seeded, rff, rffHist, memo, gp, gpOwn, arrays>>

GpScore(d) ==
    \E r \in {SGP_score(gp, arrays[d].X, arrays[d].y)} :
       /\ last' = [NoCall EXCEPT !.op = "score", !.arg = <<d>>, !.err = r.err,
                                 !.out = r.out, !.had = (gp.model_ # <<>>)]
       /\ UNCHANGED <<np_random, seeded, rff, rffHist, memo, gp, gpOwn, arrays>>

\* ---------------------------------------------------------- specifications
\* Two mappers constructed with the same arguments, and the calls on them.
InitRff ==
    /\ np_random \in 0..(RngMod - 1)
    /\ seeded = <<>>
    /\ \E g \in Gammas, m \in NComponents, k \in Kernels :
          rff = [i \in RffIds |-> RffInit(g, m, k)]
    /\ rffHist = [i \in RffIds |-> NoHist]
    /\ memo = <<>>
    /\ gp = SGP_init(KernInit, 1)
    /\ gpOwn = np_random
    /\ arrays = GpData
    /\ last = NoCall

NextRff ==
    \/ \E s \in 0..MaxSeed : Seed(s)
    \/ \E i \in RffIds, X \in RffInputs \cup BadInputs : RffFit(i, X)
    \/ \E i \in RffIds, X \in RffInputs : RffTransform(i, X)
    \/ \E i \in RffIds, X \in RffInputs : RffComputeKernel(i, X)

SpecRff == InitRff /\ [][NextRff]_vars

\* One SparseGPModel, the calls on it, and the other users of np.random.
InitGp ==
    /\ np_random \in 0..(RngMod - 1)
    /\ seeded = <<>>
    /\ rff = [i \in RffIds |-> RffInit(2, 2, "rbf")]
    /\ rffHist = [i \in RffIds |-> NoHist]
    /\ memo = <<>>
    /\ \E m \in NumInducings : gp = SGP_init(KernInit, m)
    /\ gpOwn = np_random
    /\ arrays = GpData
    /\ last = NoCall

NextGp ==
    \/ \E s \in 0..MaxSeed : Seed(s)
    \/ Rand
    \/ \E d \in DOMAIN GpData, gpy \in GpyOutcomes : GpFit(d, gpy)
    \/ \E d \in DOMAIN GpData : GpPredict(d)
    \/ \E d \in DOMAIN GpData : GpScore(d)

SpecGp == InitGp /\ [][NextGp]_vars

\* ------------------------------------------------------------------ claims
IsRffQuery == last.op \in {"transform", "compute_kernel"}
IsGpFit == last.op = "gp_fit"
FitN == arrays[last.arg[1]].X.shape[1]

\* C1: on a mapper whose fit was never called, transform and compute_kernel
\* raise NotFittedError, return nothing and leave the mapper unfitted; once a
\* fit has returned, neither raises NotFittedError again.
C1_NotFittedUntilFit ==
    IsRffQuery =>
       /\ ~rffHist[last.obj].called =>
             /\ last.err = "NotFittedError"
             /\ last.out = <<>>
             /\ ~rff[last.obj].fitted
       /\ rffHist[last.obj].succeeded => last.err # "NotFittedError"

C1_Witness ==
    /\ last.op = "compute_kernel"
    /\ last.err = "NotFittedError"
    /\ ~rffHist[last.obj].called
    /\ \E j \in RffIds : rffHist[j].succeeded /\ memo # <<>> /\ memo[1].obj = j

\* C2: predict and score on a SparseGPModel that was never fitted raise
\* NotFittedError.
C2_PredictUnfittedIsNotFitted ==
    (last.op \in {"predict", "score"} /\ ~last.had) => last.err = "NotFittedError"

\* C3: fit with num_inducing = 0, < 0 or > N raises InvalidHyperparameter and
\* does not make the instance fitted.
C3_BadNumInducingRejected ==
    (IsGpFit /\ gp.num_inducing \notin 1..FitN) =>
       /\ last.err = "InvalidHyperparameter"
       /\ gp.model_ # <<>> => last.had

\* C4: transform and compute_kernel leave w, u and fitted as they were, and
\* a transform repeated on the same input with no fit in between returns the
\* output the first one returned.
C4_QueriesWriteNothing ==
    IsRffQuery =>
       /\ rff[last.obj] = last.pre[1]
       /\ (last.op = "transform" /\ last.err = "" /\ memo # <<>>
             /\ memo[1].obj = last.obj /\ memo[1].X = last.arg[1])
          => last.out = <<memo[1].out>>

C4_Witness ==
    /\ last.op = "transform"
    /\ last.err = ""
    /\ memo # <<>> /\ memo[1].obj = last.obj /\ memo[1].X = last.arg[1]
    /\ memo[1].again

C6_SelectionFromOwnDraws ==
    IsGpFit => last.idx = <<PySlice(Permutation(last.own0, FitN), gp.num_inducing)>>

\* C7: a fit call that raises leaves the instance as it was before the call,
\* or unfitted.
C7_FailedFitKeepsPriorState ==
    /\ (last.op = "rff_fit" /\ last.err # "") =>
          (rff[last.obj] = last.pre[1] \/ ~rff[last.obj].fitted)
    /\ (IsGpFit /\ last.err # "") =>
          (gp = last.pre[1] \/ gp.model_ = <<>>)

\* C8: after a re-fit the model and the kernel hyperparameters are those of
\* a freshly constructed instance fitted on the same data alone.
C8_RefitEqualsFreshFit ==
    (IsGpFit /\ last.err = "" /\ last.had) =>
       gp = SGP_fit(SGP_init(KernInit, gp.num_inducing), arrays[last.arg[1]].X,
                    arrays[last.arg[1]].y, last.rng0, "ok").self

\* C9: with 1 <= num_inducing <= N, fit takes as Z exactly num_inducing rows
\* of X at pairwise distinct positions, and leaves X and y as they were.
C9_InducingRowsDistinct ==
    /\ arrays = GpData
    /\ (IsGpFit /\ gp.num_inducing \in 1..FitN) =>
          LET sel == last.idx[1]
              M == gp.num_inducing
          IN /\ Len(sel) = M
             /\ \A k \in 1..M : sel[k] \in 0..(FitN - 1)
             /\ \A k, l \in 1..M : k # l => sel[k] # sel[l]
             /\ last.err = "" =>
                   /\ gp.model_[1].Z.shape = <<M, 1>>
                   /\ \A k \in 1..M : gp.model_[1].Z.data[k]
                                        = GpData[last.arg[1]].X.data[sel[k] + 1]

C9_Witness ==
    /\ IsGpFit /\ last.err = ""
    /\ gp.num_inducing = 2 /\ FitN = 3
    /\ gp.model_[1].Z.shape = <<2, 1>>

\* C10: a fitted mapper holds w and u, both assigned by its latest fit call.
C10_FittedHoldsBothDraws ==
    \A i \in RffIds :
       rff[i].fitted =>
          /\ rff[i].w # <<>> /\ rff[i].u # <<>>
          /\ rffHist[i].wFrom = "latest" /\ rffHist[i].uFrom = "latest"

====
